---- MODULE Spec2Model ----
(***************************************************************************)
(* The queue dispatcher of x-auto-post (src/tweet.py): one invocation of   *)
(* main() loads posts.csv, selects at most one queued row, delivers it to  *)
(* the remote endpoint under the bounded-retry policy of post_to_x,        *)
(* records the outcome in the row and rewrites the file.                   *)
(*                                                                         *)
(* Representation.  A CSV string is a sequence of one-character strings    *)
(* (<<>> is the empty string); a datetime is the number of minutes since   *)
(* day 0, 00:00 JST (now has seconds in the code, but it is only compared  *)
(* with minute-precision values and formatted to the minute); a timestamp  *)
(* field "%Y-%m-%d %H:%M" is the tuple <<day, hour, minute>>; a row is a   *)
(* function from the column names of the file to values; a reference to a  *)
(* row dict is its index in the list (0 is None).                          *)
(*                                                                         *)
(* The rows of posts.csv carry distinct ids, as the data model requires     *)
(* (SpecIds alone drops this), and the columns main() assigns without       *)
(* adding them (BASE_COLS) exist.  The remote returns a non-empty id for    *)
(* every post it creates.  Every exception of post_to_x is caught by        *)
(* main(), so a run that has loaded the file always ends with exit status   *)
(* 0.                                                                       *)
(*                                                                         *)
(* The specifications share the actions and differ in the inputs they draw: *)
(*   Spec      invocations following one another;                           *)
(*   SpecOnce  one invocation, every outcome of an HTTP attempt, every kind *)
(*             of file;                                                     *)
(*   SpecPick  the selection of one invocation, every kind of row and of    *)
(*             current time;                                                *)
(*   SpecRace  two invocations that may overlap;                            *)
(*   SpecIds   one invocation on a file whose ids need not be distinct;     *)
(*   SpecDup   invocations following one another, the remote creating posts *)
(*             the dispatcher does not learn of;                            *)
(*   SpecRecur invocations recurring without end, and SpecLive, the same    *)
(*             under the fairness of the scheduling.                        *)
(* The locals of an action are bound by \E over a one-element set, which    *)
(* evaluates each of them once.                                             *)
(***************************************************************************)
EXTENDS Integers, Sequences, FiniteSets, TLC

VARIABLES
    file,       \* posts.csv: [header: sequence of column names, rows: sequence of rows]
    clock,      \* the latest time an invocation has read (the wall clock only advances)
    runs,       \* number of invocations started so far
    accepted,   \* the remote: for each text, how many posts of it were created
    run         \* per process: the locals of main() and post_to_x() and the position

vars == <<file, clock, runs, accepted, run>>

-----------------------------------------------------------------------------
(* Program constants *)

MAX_RETRIES == 5
BASE_SLEEP_SEC == 5
MAX_SLEEP_SEC == 120
RETRY_STATUS == {502, 503, 504, 429}
ERR_HEAD == 500

CRED_VARS == <<"X_API_KEY", "X_API_SECRET", "X_ACCESS_TOKEN", "X_ACCESS_TOKEN_SECRET">>

EXTRA_COLS == <<"reply_text", "reply_tweet_id", "reply_posted_at_jst",
                "last_error", "last_attempt_at_jst">>

\* The columns of section 3 of the data model that main() reads and writes
\* without adding them itself.
BASE_COLS == <<"id", "text", "post_at_jst", "status", "tweet_id", "posted_at_jst">>

(* Bounds of the model *)

MaxRows == 2        \* rows of posts.csv in the dispatcher specifications
MaxPickRows == 3    \* rows of posts.csv in the selection specification
MaxRuns == 2        \* invocations of main()
MaxAccepts == 2     \* posts the remote creates for one text

-----------------------------------------------------------------------------
(* Helpers *)

Range(s) == {s[i] : i \in 1..Len(s)}

Min(a, b) == IF a <= b THEN a ELSE b

Max(a, b) == IF a >= b THEN a ELSE b

RECURSIVE Pow2(_)
Pow2(n) == IF n <= 0 THEN 1 ELSE 2 * Pow2(n - 1)

Digits == <<"1", "2", "3", "4", "5", "6", "7", "8", "9">>

-----------------------------------------------------------------------------
(* datetime *)

DateTime(d, h, m) == (d * 24 + h) * 60 + m

DateOf(t) == t \div (24 * 60)

HourOf(t) == (t % (24 * 60)) \div 60

MinuteOf(t) == t % 60

\* Faulty variant: the hour is not checked, "25:00" reads as 01:00 of the next day.
ParseOkAnyHour(s) ==
    /\ Len(s) = 3
    /\ s[1] >= 1
    /\ s[3] \in 0..59

\* strptime(s, "%Y-%m-%d %H:%M") succeeds
ParseOk(s) ==
    /\ Len(s) = 3
    /\ s[1] >= 1
    /\ s[2] \in 0..23
    /\ s[3] \in 0..59

parse_jst(s) == DateTime(s[1], s[2], s[3])

\* now.strftime("%Y-%m-%d %H:%M")
strftime(t) == <<DateOf(t), HourOf(t), MinuteOf(t)>>

-----------------------------------------------------------------------------
(* Errors.  An exception is its type, the HTTP status it carries (0: none) *)
(* and the length of str(e); an error text is the f-string built from it:  *)
(* its prefix, the exception it names and its length in characters.        *)

NoException == [type |-> "", status |-> 0, msgLen |-> 0]

Exception(type, status, msgLen) == [type |-> type, status |-> status, msgLen |-> msgLen]

NoError == [prefix |-> "", type |-> "", status |-> 0, len |-> 0]

\* f"{prefix}{type(e).__name__}: {e}"
FormatErr(prefix, e) ==
    [prefix |-> prefix, type |-> e.type, status |-> e.status,
     len |-> Len(prefix) + Len(e.type) + 2 + e.msgLen]

\* err[:500]
Head500(err) == [err EXCEPT !.len = Min(@, ERR_HEAD)]

-----------------------------------------------------------------------------
(* Rows and the file *)

EmptyValue(c) == IF c = "last_error" THEN NoError
                 ELSE IF c = "status" THEN "" ELSE <<>>

\* r.get(c) or default
GetOr(r, c, default) == IF c \in DOMAIN r THEN r[c] ELSE default

load_rows == file.rows

\* Faulty variant: `if c not in fieldnames` guards the append only, so r[c] = ""
\* also empties the columns the file already has.
ensure_columns_resets(rows, header, extra_cols) ==
    LET missing == SelectSeq(extra_cols, LAMBDA c : c \notin Range(header))
        fieldnames == header \o missing
    IN  IF rows = <<>>
        THEN [rows |-> rows, fieldnames |-> <<>>]
        ELSE [rows |-> [i \in 1..Len(rows) |->
                          [c \in Range(fieldnames) |->
                             IF c \in DOMAIN rows[i] /\ c \notin Range(extra_cols)
                             THEN rows[i][c] ELSE EmptyValue(c)]],
              fieldnames |-> fieldnames]

ensure_columns(rows, header, extra_cols) ==
    LET missing == SelectSeq(extra_cols, LAMBDA c : c \notin Range(header))
        fieldnames == header \o missing
    IN  IF rows = <<>>
        THEN [rows |-> rows, fieldnames |-> <<>>]
        ELSE [rows |-> [i \in 1..Len(rows) |->
                          [c \in Range(fieldnames) |->
                             IF c \in DOMAIN rows[i] THEN rows[i][c] ELSE EmptyValue(c)]],
              fieldnames |-> fieldnames]

\* Faulty variant: the rows the file holds as posted are written as the file has
\* them, not as the invocation holds them.
save_rows_keeps_posted(rows, fieldnames) ==
    [header |-> fieldnames,
     rows |-> [i \in 1..Len(rows) |->
                IF i <= Len(file.rows) /\ GetOr(file.rows[i], "status", "") = "posted"
                THEN file.rows[i] ELSE rows[i]]]

\* csv.DictWriter(f, fieldnames).writeheader(); writerows(rows)
save_rows(rows, fieldnames) == [header |-> fieldnames, rows |-> rows]

-----------------------------------------------------------------------------
(* Selection *)

guess_slot_hour(now) ==
    LET h == HourOf(now)
    IN  IF 6 <= h /\ h < 10 THEN 8
        ELSE IF 10 <= h /\ h < 14 THEN 12
        ELSE IF 14 <= h /\ h < 18 THEN 16
        ELSE IF 18 <= h /\ h < 22 THEN 20
        ELSE 0

\* Faulty variant: the loops do not skip the rows that are not queued.
ParsableAnyStatus(r) ==
    /\ GetOr(r, "post_at_jst", <<>>) # <<>>
    /\ ParseOk(r["post_at_jst"])

\* the rows the loops of pick_slot_post and pick_oldest_overdue do not skip
Parsable(r) ==
    /\ GetOr(r, "status", "") = "queued"
    /\ GetOr(r, "post_at_jst", <<>>) # <<>>
    /\ ParseOk(r["post_at_jst"])

\* list.sort(key=lambda x: x[0]): a stable insertion of the pairs <<t, index>>
RECURSIVE InsertByKey(_, _)
InsertByKey(x, sorted) ==
    IF sorted = <<>> THEN <<x>>
    ELSE IF x[1] < Head(sorted)[1] THEN <<x>> \o sorted
    ELSE <<Head(sorted)>> \o InsertByKey(x, Tail(sorted))

RECURSIVE SortByKey(_)
SortByKey(s) ==
    IF s = <<>> THEN <<>>
    ELSE InsertByKey(s[Len(s)], SortByKey(SubSeq(s, 1, Len(s) - 1)))

\* candidates[0][1] after the sort, None when there is no candidate
FirstOf(candidates) ==
    IF candidates = <<>> THEN 0 ELSE SortByKey(candidates)[1][2]

SlotCandidate(r, now, slot_hour) ==
    /\ Parsable(r)
    /\ DateOf(parse_jst(r["post_at_jst"])) = DateOf(now)
    /\ HourOf(parse_jst(r["post_at_jst"])) = slot_hour
    /\ parse_jst(r["post_at_jst"]) <= now

\* Faulty variant: the comparison with now is missing.
OverdueCandidateAnyTime(r, now) == Parsable(r)

OverdueCandidate(r, now) ==
    /\ Parsable(r)
    /\ parse_jst(r["post_at_jst"]) <= now

Indexes(rows) == [i \in 1..Len(rows) |-> i]

\* Faulty variant: the candidates are not sorted, the first in file order is returned.
pick_slot_post_unsorted(rows, now, slot_hour) ==
    LET kept == SelectSeq(Indexes(rows), LAMBDA i : SlotCandidate(rows[i], now, slot_hour))
    IN  IF kept = <<>> THEN 0 ELSE kept[1]

pick_slot_post(rows, now, slot_hour) ==
    LET kept == SelectSeq(Indexes(rows), LAMBDA i : SlotCandidate(rows[i], now, slot_hour))
        candidates == [k \in 1..Len(kept) |-> <<parse_jst(rows[kept[k]]["post_at_jst"]), kept[k]>>]
    IN  FirstOf(candidates)

pick_oldest_overdue(rows, now) ==
    LET kept == SelectSeq(Indexes(rows), LAMBDA i : OverdueCandidate(rows[i], now))
        candidates == [k \in 1..Len(kept) |-> <<parse_jst(rows[kept[k]]["post_at_jst"]), kept[k]>>]
    IN  FirstOf(candidates)

\* main(), the choice of target
SelectTarget(rows, now) ==
    LET slot_hour == guess_slot_hour(now)
    IN  IF slot_hour # 0
        THEN LET target == pick_slot_post(rows, now, slot_hour)
             IN  IF target # 0 THEN target ELSE pick_oldest_overdue(rows, now)
        ELSE pick_oldest_overdue(rows, now)

-----------------------------------------------------------------------------
(* The remote endpoint and one HTTP attempt *)

NoHeader == [given |-> FALSE, digits |-> FALSE, ahead |-> 0]

\* x-rate-limit-reset: a string of digits whose value is `ahead` seconds after
\* int(time.time()), or a string that is not all digits
ResetHeader(digits, ahead) == [given |-> TRUE, digits |-> digits, ahead |-> ahead]

NoResponse ==
    [kind |-> "none", status |-> 0, hasId |-> FALSE, created |-> FALSE,
     reset |-> NoHeader, msgLen |-> 0]

\* What requests.post() does in one attempt: a response with a status code (a
\* 2xx body holds data.id or not), or a Timeout / ConnectionError; `created`
\* says whether the remote created the post, msgLen is the length of str(e)
\* of the exception the outcome raises, if it raises one.
Response(status, hasId, reset, msgLen) ==
    [kind |-> "response", status |-> status, hasId |-> hasId,
     created |-> (status \in 200..299), reset |-> reset, msgLen |-> msgLen]

NetworkError(kind, created, msgLen) ==
    [kind |-> kind, status |-> 0, hasId |-> FALSE, created |-> created,
     reset |-> NoHeader, msgLen |-> msgLen]

\* the outcomes drawn when invocations follow one another: the post is created
\* and its id returned, the request is refused, the post is created and the
\* response is lost
Outcomes ==
    { Response(201, TRUE, NoHeader, 0),
      Response(500, FALSE, NoHeader, 78),
      NetworkError("ReadTimeout", TRUE, 90) }

\* the post or the reply is created and its id returned, or the request is refused
RaceOutcomes ==
    { Response(201, TRUE, NoHeader, 0),
      Response(500, FALSE, NoHeader, 78) }

\* the outcomes drawn for one invocation alone
AllOutcomes ==
    { Response(201, TRUE, NoHeader, 0),
      Response(200, FALSE, NoHeader, 0),
      Response(403, FALSE, NoHeader, 68),
      Response(500, FALSE, NoHeader, 78),
      Response(502, FALSE, NoHeader, 68),
      Response(503, FALSE, NoHeader, 72),
      Response(504, FALSE, NoHeader, 72),
      Response(429, FALSE, NoHeader, 74),
      Response(429, FALSE, ResetHeader(FALSE, 0), 74),
      Response(429, FALSE, ResetHeader(TRUE, 0), 74),
      Response(429, FALSE, ResetHeader(TRUE, 10), 74),
      Response(429, FALSE, ResetHeader(TRUE, 900), 74),
      NetworkError("ReadTimeout", FALSE, 90),
      NetworkError("ConnectionError", FALSE, 600) }

NoPayload == [text |-> <<>>, reply_to |-> <<>>]

\* the id the remote gives to the k-th post it creates for a text, and to a reply
TweetIdOf(text, k) == <<"#">> \o text \o <<Digits[k]>>

ReplyIdOf(parent) == parent \o <<"r">>

\* Faulty variant: min(wait, MAX_SLEEP_SEC) is missing.
calc_wait_seconds_uncapped(resp, attempt) ==
    IF resp.kind = "response" /\ resp.status = 429
       /\ resp.reset.given /\ resp.reset.digits
    THEN IF resp.reset.ahead >= 1 THEN resp.reset.ahead ELSE 1
    ELSE BASE_SLEEP_SEC * Pow2(attempt - 1)

calc_wait_seconds(resp, attempt) ==
    LET wait == BASE_SLEEP_SEC * Pow2(attempt - 1)
        w2 == IF resp.kind = "response" /\ resp.status = 429
                 /\ resp.reset.given /\ resp.reset.digits
              THEN Max(1, resp.reset.ahead)
              ELSE wait
    IN  Min(w2, MAX_SLEEP_SEC)

\* min(BASE_SLEEP_SEC * (2 ** (attempt - 1)), MAX_SLEEP_SEC), the except branch
NetworkWait(attempt) == Min(BASE_SLEEP_SEC * Pow2(attempt - 1), MAX_SLEEP_SEC)

\* Faulty variant: every 5xx status is retried.
IsRetryStatusAny5xx(status) == status \in RETRY_STATUS \/ status >= 500

IsRetryStatus(status) == status \in RETRY_STATUS

IsNetworkError(o) == o.kind \in {"ReadTimeout", "ConnectionError"}

-----------------------------------------------------------------------------
(* The processes *)

Procs == {1, 2}

IdleRun ==
    [pc |-> "idle", env |-> {}, now |-> 0, rows |-> <<>>, fieldnames |-> <<>>,
     target |-> 0, call |-> "none", payload |-> NoPayload, attempt |-> 0,
     resp |-> NoResponse, slept |-> 0, wait |-> 0, raised |-> NoException,
     ret |-> <<>>, tweet_id |-> <<>>, posted |-> FALSE, exit |-> 0]

Raised(s) == s.raised # NoException

\* make_auth(): os.environ[...] raises KeyError for the first missing variable
MissingCreds(env) == SelectSeq(CRED_VARS, LAMBDA v : v \notin env)

\* post_to_x up to the loop: make_auth(), the payload, attempt = 1
EnterPostToX(s, call, text, reply_to) ==
    LET t == [s EXCEPT !.call = call,
                       !.payload = [text |-> text, reply_to |-> reply_to],
                       !.attempt = 0, !.resp = NoResponse, !.slept = 0, !.wait = 0,
                       !.raised = NoException, !.ret = <<>>]
    IN  IF MissingCreds(s.env) # <<>>
        THEN [t EXCEPT !.pc = "returned",
                       !.raised = Exception("KeyError", 0, Len(MissingCreds(s.env)[1]) + 2)]
        ELSE [t EXCEPT !.pc = "http", !.attempt = 1]

\* Faulty variant: data["id"] is read instead of data["data"]["id"], so also a
\* body with data.id raises KeyError.
AttemptRaisesNoId(o, attempt) ==
    IF o.kind = "response"
    THEN IF IsRetryStatus(o.status) /\ attempt < MAX_RETRIES THEN NoException
         ELSE IF o.status >= 400 THEN Exception("HTTPError", o.status, o.msgLen)
         ELSE Exception("KeyError", 0, Len("'id'"))
    ELSE IF attempt < MAX_RETRIES THEN NoException
         ELSE Exception(o.kind, 0, o.msgLen)

\* the exception one attempt ends the call with, NoException if it returns or retries
AttemptRaises(o, attempt) ==
    IF o.kind = "response"
    THEN IF IsRetryStatus(o.status) /\ attempt < MAX_RETRIES THEN NoException
         ELSE IF o.status >= 400 THEN Exception("HTTPError", o.status, o.msgLen)
         ELSE IF ~o.hasId THEN Exception("KeyError", 0, Len("'data'"))
         ELSE NoException
    ELSE IF attempt < MAX_RETRIES THEN NoException
         ELSE Exception(o.kind, 0, o.msgLen)

\* Faulty variant: attempt <= MAX_RETRIES, the last attempt sleeps and retries too.
AttemptRetriesOnceMore(o, attempt) ==
    /\ attempt <= MAX_RETRIES
    /\ \/ o.kind = "response" /\ IsRetryStatus(o.status)
       \/ IsNetworkError(o)

\* the attempt sleeps and the loop continues
AttemptRetries(o, attempt) ==
    /\ attempt < MAX_RETRIES
    /\ \/ o.kind = "response" /\ IsRetryStatus(o.status)
       \/ IsNetworkError(o)

AttemptWait(o, attempt) ==
    IF o.kind = "response" THEN calc_wait_seconds(o, attempt) ELSE NetworkWait(attempt)

\* Faulty variant: save_rows(rows, fieldnames) is called before the return of
\* "No queued posts to send".
InvokeSaving(p, t, env) ==
    /\ run[p].pc \in {"idle", "done"}
    /\ t >= clock
    /\ clock' = t
    /\ LET rows0 == load_rows
           ec == ensure_columns(rows0, file.header, EXTRA_COLS)
           target == SelectTarget(ec.rows, t)
           s == [IdleRun EXCEPT !.env = env, !.now = t, !.rows = ec.rows,
                                !.fieldnames = ec.fieldnames, !.target = target]
       IN  /\ run' = [run EXCEPT ![p] =
                        IF rows0 = <<>> \/ target = 0
                        THEN [s EXCEPT !.pc = "done", !.exit = 0]
                        ELSE EnterPostToX(s, "post", GetOr(ec.rows[target], "text", <<>>), <<>>)]
           /\ file' = IF rows0 # <<>> /\ target = 0
                      THEN save_rows(ec.rows, ec.fieldnames)
                      ELSE file
    /\ UNCHANGED accepted

\* main() up to the first call of post_to_x
Invoke(p, t, env) ==
    /\ run[p].pc \in {"idle", "done"}
    /\ t >= clock
    /\ clock' = t
    /\ \E ec \in {ensure_columns(load_rows, file.header, EXTRA_COLS)} :
         \E target \in {SelectTarget(ec.rows, t)} :
            \E s \in {[IdleRun EXCEPT !.env = env, !.now = t, !.rows = ec.rows,
                                      !.fieldnames = ec.fieldnames, !.target = target]} :
               run' = [run EXCEPT ![p] =
                         IF load_rows = <<>> \/ target = 0
                         THEN [s EXCEPT !.pc = "done", !.exit = 0]
                         ELSE EnterPostToX(s, "post", GetOr(ec.rows[target], "text", <<>>), <<>>)]
    /\ UNCHANGED <<file, accepted>>

\* an invocation of main(), counted
Start(p, t, env) ==
    /\ runs < MaxRuns
    /\ runs' = runs + 1
    /\ Invoke(p, t, env)

\* one iteration of the loop of post_to_x
Attempt(p, o) ==
    LET s == run[p]
        isPost == s.payload.reply_to = <<>>
        creates == o.created /\ isPost
        exc == AttemptRaises(o, s.attempt)
    IN  /\ s.pc = "http"
        /\ creates => accepted[s.payload.text] < MaxAccepts
        /\ accepted' = IF creates
                       THEN [accepted EXCEPT ![s.payload.text] = @ + 1]
                       ELSE accepted
        /\ run' = [run EXCEPT ![p] =
                     IF AttemptRetries(o, s.attempt)
                     THEN [s EXCEPT !.resp = o, !.attempt = @ + 1, !.slept = @ + 1,
                                    !.wait = AttemptWait(o, s.attempt)]
                     ELSE IF exc # NoException
                     THEN [s EXCEPT !.resp = o, !.pc = "returned", !.raised = exc]
                     ELSE [s EXCEPT !.resp = o, !.pc = "returned",
                                    !.ret = IF isPost
                                            THEN TweetIdOf(s.payload.text, accepted'[s.payload.text])
                                            ELSE ReplyIdOf(s.payload.reply_to)]]
        /\ UNCHANGED <<file, clock, runs>>

-----------------------------------------------------------------------------
(* main() after post_to_x *)

Whitespace == {" ", "\t", "\n"}

\* Faulty variant: .strip() is missing.
StripNothing(s) == s

\* str.strip()
RECURSIVE LStrip(_)
LStrip(s) == IF s # <<>> /\ Head(s) \in Whitespace THEN LStrip(Tail(s)) ELSE s

RECURSIVE RStrip(_)
RStrip(s) ==
    IF s # <<>> /\ s[Len(s)] \in Whitespace THEN RStrip(SubSeq(s, 1, Len(s) - 1)) ELSE s

Strip(s) == RStrip(LStrip(s))

\* Faulty variant: the loop has no break, the last row with the id is the one left updated.
LastWithId(rows, target) ==
    CHOOSE i \in 1..Len(rows) :
        /\ GetOr(rows[i], "id", <<>>) = GetOr(rows[target], "id", <<>>)
        /\ \A j \in (i + 1)..Len(rows) : GetOr(rows[j], "id", <<>>) # GetOr(rows[target], "id", <<>>)

\* for r in rows: if r.get("id") == target.get("id"): ...; break
FirstWithId(rows, target) ==
    CHOOSE i \in 1..Len(rows) :
        /\ GetOr(rows[i], "id", <<>>) = GetOr(rows[target], "id", <<>>)
        /\ \A j \in 1..(i - 1) : GetOr(rows[j], "id", <<>>) # GetOr(rows[target], "id", <<>>)

SetFields(r, new) == [c \in DOMAIN r \cup DOMAIN new |-> IF c \in DOMAIN new THEN new[c] ELSE r[c]]

\* Faulty variant: the error text is stored whole, without [:500].
MarkFailedWhole(rows, target, err, now_s) ==
    [rows EXCEPT ![FirstWithId(rows, target)] =
        SetFields(@, [last_error |-> err, last_attempt_at_jst |-> now_s])]

\* Faulty variant: the failure is also recorded in status, so the row leaves the queue.
MarkFailedStatus(rows, target, err, now_s) ==
    [rows EXCEPT ![FirstWithId(rows, target)] =
        SetFields(@, [status |-> "failed", last_error |-> Head500(err),
                      last_attempt_at_jst |-> now_s])]

MarkFailed(rows, target, err, now_s) ==
    [rows EXCEPT ![FirstWithId(rows, target)] =
        SetFields(@, [last_error |-> Head500(err), last_attempt_at_jst |-> now_s])]

\* Faulty variant: the assignment of status is missing, the row stays queued.
MarkPostedQueued(rows, target, tweet_id, now_s) ==
    [rows EXCEPT ![FirstWithId(rows, target)] =
        SetFields(@, [tweet_id |-> tweet_id, posted_at_jst |-> now_s,
                      last_error |-> NoError, last_attempt_at_jst |-> now_s])]

\* Faulty variant: the assignment of tweet_id is missing.
MarkPostedNoId(rows, target, tweet_id, now_s) ==
    [rows EXCEPT ![FirstWithId(rows, target)] =
        SetFields(@, [status |-> "posted", posted_at_jst |-> now_s,
                      last_error |-> NoError, last_attempt_at_jst |-> now_s])]

\* Faulty variant: the loop compares no id and has no break, every row is marked.
MarkPostedEvery(rows, target, tweet_id, now_s) ==
    [i \in 1..Len(rows) |->
        SetFields(rows[i], [status |-> "posted", tweet_id |-> tweet_id, posted_at_jst |-> now_s,
                            last_error |-> NoError, last_attempt_at_jst |-> now_s])]

MarkPosted(rows, target, tweet_id, now_s) ==
    [rows EXCEPT ![FirstWithId(rows, target)] =
        SetFields(@, [status |-> "posted", tweet_id |-> tweet_id, posted_at_jst |-> now_s,
                      last_error |-> NoError, last_attempt_at_jst |-> now_s])]

MarkReplied(rows, target, reply_id, now_s) ==
    [rows EXCEPT ![FirstWithId(rows, target)] =
        SetFields(@, [reply_tweet_id |-> reply_id, reply_posted_at_jst |-> now_s])]

\* Faulty variant: a failed reply puts the row back in the queue.
MarkReplyFailedRequeue(rows, target, err, now_s) ==
    [rows EXCEPT ![FirstWithId(rows, target)] =
        SetFields(@, [status |-> "queued", last_error |-> Head500(err),
                      last_attempt_at_jst |-> now_s])]

MarkReplyFailed(rows, target, err, now_s) ==
    [rows EXCEPT ![FirstWithId(rows, target)] =
        SetFields(@, [last_error |-> Head500(err), last_attempt_at_jst |-> now_s])]

\* what the except clause of main() does with the exception of the parent post
PostFailed(s) ==
    [s EXCEPT !.rows = MarkFailed(s.rows, s.target, FormatErr("", s.raised), strftime(s.now)),
              !.pc = "done", !.exit = 0]

\* what the except clause of main() does with the exception of the reply
ReplyFailed(s) ==
    [s EXCEPT !.rows = MarkReplyFailed(s.rows, s.target, FormatErr("reply ", s.raised),
                                       strftime(s.now)),
              !.pc = "done", !.exit = 0]

\* main() from the return of post_to_x(text) to the call of post_to_x(reply_text, ...)
\* or to the end
AfterPost(p) ==
    /\ run[p].pc = "returned"
    /\ run[p].call = "post"
    /\ \E s \in {run[p]} :
         IF Raised(s)
         THEN \E failed \in {PostFailed(s)} :
                 /\ run' = [run EXCEPT ![p] = failed]
                 /\ file' = save_rows(failed.rows, s.fieldnames)
         ELSE \E posted \in {[s EXCEPT !.tweet_id = s.ret, !.posted = TRUE,
                                        !.rows = MarkPosted(s.rows, s.target, s.ret,
                                                            strftime(s.now))]} :
                 \E reply_text \in {Strip(GetOr(posted.rows[s.target], "reply_text", <<>>))} :
                    IF reply_text # <<>>
                    THEN /\ run' = [run EXCEPT ![p] =
                                      EnterPostToX(posted, "reply", reply_text, posted.tweet_id)]
                         /\ UNCHANGED file
                    ELSE /\ run' = [run EXCEPT ![p] = [posted EXCEPT !.pc = "done", !.exit = 0]]
                         /\ file' = save_rows(posted.rows, s.fieldnames)
    /\ UNCHANGED <<clock, runs, accepted>>

\* main() from the return of post_to_x(reply_text, ...) to the end
AfterReply(p) ==
    /\ run[p].pc = "returned"
    /\ run[p].call = "reply"
    /\ \E s \in {run[p]} :
         \E t \in {IF Raised(s)
                   THEN ReplyFailed(s)
                   ELSE [s EXCEPT !.rows = MarkReplied(s.rows, s.target, s.ret, strftime(s.now)),
                                  !.pc = "done", !.exit = 0]} :
            /\ run' = [run EXCEPT ![p] = t]
            /\ file' = save_rows(t.rows, s.fieldnames)
    /\ UNCHANGED <<clock, runs, accepted>>

-----------------------------------------------------------------------------
(* Inputs *)

RowId(i) == <<Digits[i]>>

RowText(i) == <<"m", Digits[i]>>

AllTexts == {RowText(i) : i \in 1..Max(MaxRows, MaxPickRows)}

\* a row as posts.csv is authored: queued, nothing recorded yet
NewRow(header, i, post_at, reply_text) ==
    [c \in Range(header) |->
        IF c = "id" THEN RowId(i)
        ELSE IF c = "text" THEN RowText(i)
        ELSE IF c = "post_at_jst" THEN post_at
        ELSE IF c = "status" THEN "queued"
        ELSE IF c = "reply_text" THEN reply_text
        ELSE EmptyValue(c)]

Headers == {BASE_COLS, BASE_COLS \o EXTRA_COLS}

\* a row a previous invocation has posted at post_at
PostedRow(header, i, post_at) ==
    [c \in Range(header) |->
        IF c = "status" THEN "posted"
        ELSE IF c = "tweet_id" THEN TweetIdOf(RowText(i), 1)
        ELSE IF c \in {"posted_at_jst", "last_attempt_at_jst"} THEN post_at
        ELSE NewRow(header, i, post_at, <<>>)[c]]

Envs == {Range(CRED_VARS), Range(CRED_VARS) \ {"X_ACCESS_TOKEN"}}

\* Invocations following one another: yesterday's slot hour and today's slot
\* hour; inside the 08 window and outside every window.
PostAts == {<<1, 8, 0>>, <<2, 8, 0>>}

ReplyTexts == {<<>>, <<" ", "a", "\n">>}

Nows == {DateTime(2, 8, 30), DateTime(2, 23, 0)}

FullHeader == BASE_COLS \o EXTRA_COLS

\* posts.csv with rows 1..n, row i due at pa[i] with the reply text rt[i]
FileOf(h, n, pa, rt) ==
    [header |-> h,
     rows |-> [i \in 1..n |->
                NewRow(h, i, pa[i], IF "reply_text" \in Range(h) THEN rt[i] ELSE <<>>)]]

\* One invocation alone: overdue or not yet due, every kind of reply text,
\* with and without the columns main() adds.
OncePostAts == {<<2, 8, 0>>, <<3, 8, 0>>}

OnceReplyTexts == {<<>>, <<" ">>, <<" ", "a", "\n">>}

OnceNows == {DateTime(2, 8, 30)}

\* The selection alone: empty, unparsable (hour 25), yesterday's slot hour, today
\* before, at and after the slot hour 08, today's slot hours 12, 16 and 20; queued
\* or posted; the current time at both ends of every slot window.
PickPostAts ==
    {<<>>, <<1, 25, 0>>, <<1, 8, 0>>, <<2, 7, 0>>, <<2, 8, 0>>, <<2, 8, 30>>,
     <<2, 12, 0>>, <<2, 16, 0>>, <<2, 20, 0>>}

PickNows ==
    {DateTime(2, 5, 59), DateTime(2, 8, 15), DateTime(2, 8, 45), DateTime(2, 9, 59),
     DateTime(2, 10, 0), DateTime(2, 13, 59), DateTime(2, 14, 0), DateTime(2, 17, 59),
     DateTime(2, 18, 0), DateTime(2, 21, 59), DateTime(2, 22, 0)}

\* the post_at of the rows that are already posted
PickPostedAts == {<<1, 8, 0>>, <<2, 8, 0>>}

PickKinds ==
    {<<"queued", pa>> : pa \in PickPostAts} \cup {<<"posted", pa>> : pa \in PickPostedAts}

PickRow(i, kind) ==
    IF kind[1] = "queued"
    THEN NewRow(FullHeader, i, kind[2], <<>>)
    ELSE PostedRow(FullHeader, i, kind[2])

\* everything but posts.csv before the first invocation
InitRest ==
    /\ clock = 0
    /\ runs = 0
    /\ accepted = [x \in AllTexts |-> 0]
    /\ run = [p \in Procs |-> IdleRun]

-----------------------------------------------------------------------------
(* Invocations of main() following one another (they are serialized: one   *)
(* process at a time)                                                      *)

Init ==
    /\ \E pa \in [1..MaxRows -> PostAts], rt \in [1..MaxRows -> ReplyTexts] :
         file = FileOf(FullHeader, MaxRows, pa, rt)
    /\ InitRest

Next ==
    \/ \E t \in Nows : Start(1, t, Range(CRED_VARS))
    \/ \E o \in Outcomes : Attempt(1, o)
    \/ AfterPost(1)
    \/ AfterReply(1)

Spec == Init /\ [][Next]_vars

(* One invocation of main(), every outcome of an HTTP attempt *)

InitOnce ==
    /\ \E h \in Headers, n \in 0..MaxRows :
         \E pa \in [1..n -> OncePostAts], rt \in [1..n -> OnceReplyTexts] :
            file = FileOf(h, n, pa, rt)
    /\ InitRest

NextOnce ==
    \/ \E t \in OnceNows, env \in Envs : runs = 0 /\ Start(1, t, env)
    \/ \E o \in AllOutcomes : Attempt(1, o)
    \/ AfterPost(1)
    \/ AfterReply(1)

SpecOnce == InitOnce /\ [][NextOnce]_vars

(* The selection of one invocation, every kind of row *)

InitPick ==
    /\ \E n \in 0..MaxPickRows :
         \E k \in [1..n -> PickKinds] :
            file = [header |-> FullHeader, rows |-> [i \in 1..n |-> PickRow(i, k[i])]]
    /\ InitRest

NextPick == \E t \in PickNows : runs = 0 /\ Start(1, t, Range(CRED_VARS))

SpecPick == InitPick /\ [][NextPick]_vars

(* Two invocations of main() that may overlap: each process runs main() once,  *)
(* and nothing orders the load of one after the save of the other              *)

InitRace ==
    /\ \E pa \in [1..MaxRows -> PostAts], rt \in [1..MaxRows -> ReplyTexts] :
         file = FileOf(FullHeader, MaxRows, pa, rt)
    /\ InitRest

StartOnce(p) == \E t \in Nows : run[p].pc = "idle" /\ Start(p, t, Range(CRED_VARS))

NextRace ==
    \E p \in Procs :
        \/ StartOnce(p)
        \/ \E o \in RaceOutcomes : Attempt(p, o)
        \/ AfterPost(p)
        \/ AfterReply(p)

SpecRace == InitRace /\ [][NextRace]_vars

(* Invocations of main() that recur without end, one at a time: the second   *)
(* day before the 08 window, inside it and after every window; rows due the   *)
(* day before, due in the 08 slot of the second day, or with no post_at       *)

RecurPostAts == {<<>>, <<1, 8, 0>>, <<2, 8, 0>>}

RecurReplyTexts == {<<>>, <<"a">>}

RecurNows == {DateTime(2, 5, 0), DateTime(2, 8, 30), DateTime(2, 23, 0)}

InitRecur ==
    /\ \E pa \in [1..MaxRows -> RecurPostAts], rt \in [1..MaxRows -> RecurReplyTexts] :
         file = FileOf(FullHeader, MaxRows, pa, rt)
    /\ InitRest

\* the scheduler invokes main() again
Recur(p) == \E t \in RecurNows : Invoke(p, t, Range(CRED_VARS)) /\ UNCHANGED runs

Delivered(p) == Attempt(p, Response(201, TRUE, NoHeader, 0))

Refused(p) == Attempt(p, Response(500, FALSE, NoHeader, 78))

NextRecur ==
    \/ Recur(1)
    \/ Delivered(1)
    \/ Refused(1)
    \/ AfterPost(1)
    \/ AfterReply(1)

SpecRecur == InitRecur /\ [][NextRecur]_vars

(* One invocation of main() on a file whose ids need not be distinct: rows   *)
(* with the same id, rows with an empty id, a file without the id column     *)

IdValues == {<<>>, <<"1">>, <<"2">>}

IdHeaders == {FullHeader, SelectSeq(FullHeader, LAMBDA c : c # "id")}

\* posts.csv with rows 1..n, row i with the id ids[i] when the file has the column
IdsFileOf(h, n, ids, pa, rt) ==
    [header |-> h,
     rows |-> [i \in 1..n |->
                [c \in Range(h) |->
                   IF c = "id" THEN ids[i] ELSE NewRow(h, i, pa[i], rt[i])[c]]]]

InitIds ==
    /\ \E h \in IdHeaders :
         \E ids \in [1..MaxRows -> IdValues], pa \in [1..MaxRows -> PostAts],
            rt \in [1..MaxRows -> ReplyTexts] :
            file = IdsFileOf(h, MaxRows, ids, pa, rt)
    /\ InitRest

NextIds ==
    \/ \E t \in Nows : runs = 0 /\ Start(1, t, Range(CRED_VARS))
    \/ \E o \in RaceOutcomes : Attempt(1, o)
    \/ AfterPost(1)
    \/ AfterReply(1)

SpecIds == InitIds /\ [][NextIds]_vars

(* Invocations of main() following one another when the remote can create  *)
(* the post and the dispatcher not learn it: the response is lost, or it is *)
(* a 2xx whose body has no data.id                                          *)

DupOutcomes ==
    { Response(201, TRUE, NoHeader, 0),
      Response(200, FALSE, NoHeader, 0),
      Response(500, FALSE, NoHeader, 78),
      NetworkError("ReadTimeout", TRUE, 90) }

DupNows == {DateTime(2, 23, 0)}

InitDup ==
    /\ \E rt \in ReplyTexts :
         file = FileOf(FullHeader, MaxRows, [i \in 1..MaxRows |-> <<1, 8, 0>>],
                       [i \in 1..MaxRows |-> rt])
    /\ InitRest

NextDup ==
    \/ \E t \in DupNows : Start(1, t, Range(CRED_VARS))
    \/ \E o \in DupOutcomes : Attempt(1, o)
    \/ AfterPost(1)
    \/ AfterReply(1)

SpecDup == InitDup /\ [][NextDup]_vars

(* The same with the scheduling the dispatcher runs under: the external     *)
(* scheduler invokes main() again and again, every HTTP attempt ends (the   *)
(* request has a timeout of 30 seconds) and main() runs to its end          *)

Fairness ==
    /\ WF_vars(Recur(1))
    /\ WF_vars(Delivered(1) \/ Refused(1))
    /\ WF_vars(AfterPost(1))
    /\ WF_vars(AfterReply(1))

\* every row with the same reply text
InitLive ==
    /\ \E pa \in [1..MaxRows -> RecurPostAts], rt \in RecurReplyTexts :
         file = FileOf(FullHeader, MaxRows, pa, [i \in 1..MaxRows |-> rt])
    /\ InitRest

SpecLive == InitLive /\ [][NextRecur]_vars /\ Fairness

-----------------------------------------------------------------------------
(* Properties *)

Running(s) == s.pc \in {"http", "returned"}

Ended(s) == s.pc = "done"

\* the rows of posts.csv that one step turns from queued to posted
NewlyPosted ==
    {i \in 1..Len(file.rows) :
        /\ file.rows[i]["status"] = "queued"
        /\ i <= Len(file'.rows)
        /\ file'.rows[i]["status"] = "posted"}

\* C1: in one run of main() at most one row of posts.csv goes from queued to
\* posted and at most one row is selected: the file is written only by the step
\* that ends a run, that write turns at most one row from queued to posted, the
\* target and the time of a run never change while it runs, and every post the
\* run submits carries the text of that one target.
C1_OneRowPerRun ==
    [][ /\ Cardinality(NewlyPosted) <= 1
        /\ file' # file => \E p \in Procs : Running(run[p]) /\ Ended(run'[p])
        /\ \A p \in Procs :
             /\ Running(run[p]) => /\ run'[p].target = run[p].target
                                   /\ run'[p].now = run[p].now
             /\ (Running(run'[p]) /\ run'[p].call = "post")
                  => /\ run'[p].target \in 1..Len(run'[p].rows)
                     /\ run'[p].payload.text = run'[p].rows[run'[p].target]["text"]
             /\ Cardinality({i \in 1..Len(run'[p].rows) :
                               run'[p].rows[i]["status"] # file.rows[i]["status"]}) <= 1
      ]_vars

\* a run has ended with its row posted while another overdue queued row waits
C1_Witness ==
    \E p \in Procs :
        /\ Ended(run[p])
        /\ run[p].posted
        /\ file.rows[run[p].target]["status"] = "posted"
        /\ \E j \in 1..Len(file.rows) :
             /\ j # run[p].target
             /\ file.rows[j]["status"] = "queued"
             /\ parse_jst(file.rows[j]["post_at_jst"]) <= run[p].now

\* C2: posted is terminal over serialized runs: a row of posts.csv that is posted
\* stays posted in every step (whatever the reply did), a run never starts with a
\* posted row as its target, and neither selection function returns a posted row
\* for any file a run writes.
C2_PostedIsTerminal ==
    [][ /\ \A i \in 1..Len(file.rows) :
             file.rows[i]["status"] = "posted"
               => i <= Len(file'.rows) /\ file'.rows[i]["status"] = "posted"
        /\ \A p \in Procs :
             (~Running(run[p]) /\ run'[p] # run[p] /\ run'[p].target # 0)
               => file.rows[run'[p].target]["status"] = "queued"
        /\ \A t \in Nows :
             file' # file =>
             /\ pick_oldest_overdue(file'.rows, t) # 0
                  => file'.rows[pick_oldest_overdue(file'.rows, t)]["status"] # "posted"
             /\ pick_slot_post(file'.rows, t, guess_slot_hour(t)) # 0
                  => file'.rows[pick_slot_post(file'.rows, t, guess_slot_hour(t))]["status"]
                       # "posted"
      ]_vars

\* the second run delivers a row while an overdue row, posted by the first run
\* with a failed reply, is in the file
C2_Witness ==
    \E p \in Procs :
        /\ runs = 2
        /\ Running(run[p])
        /\ \E i \in 1..Len(file.rows) :
             /\ file.rows[i]["status"] = "posted"
             /\ file.rows[i]["last_error"] # NoError
             /\ parse_jst(file.rows[i]["post_at_jst"])
                  < parse_jst(file.rows[run[p].target]["post_at_jst"])

\* the slot table as the specification states it
SlotOfHour(h) ==
    IF h \in 6..9 THEN 8
    ELSE IF h \in 10..13 THEN 12
    ELSE IF h \in 14..17 THEN 16
    ELSE IF h \in 18..21 THEN 20
    ELSE 0

Queued(rows) == {i \in 1..Len(rows) : rows[i]["status"] = "queued"}

\* the queued rows whose post_at reads as a time, which is not after now
Overdue(rows, now) ==
    {i \in Queued(rows) :
        /\ ParseOk(rows[i]["post_at_jst"])
        /\ parse_jst(rows[i]["post_at_jst"]) <= now}

\* the overdue rows of today whose hour is the hour of the slot of now
SlotRows(rows, now) ==
    {i \in Overdue(rows, now) :
        /\ rows[i]["post_at_jst"][1] = DateOf(now)
        /\ rows[i]["post_at_jst"][2] = SlotOfHour(HourOf(now))}

PostAt(rows, i) == parse_jst(rows[i]["post_at_jst"])

\* i has the earliest post_at of S, and is the first in file order of those
EarliestFirst(rows, S, i) ==
    /\ i \in S
    /\ \A j \in S : \/ PostAt(rows, i) < PostAt(rows, j)
                    \/ PostAt(rows, i) = PostAt(rows, j) /\ i <= j

Started(s) == s.pc # "idle"

\* C3: when now lies in a slot window and some queued row of today has the hour
\* of the slot and post_at <= now, the run selects the earliest of those rows,
\* the first in file order among equal post_at, and so no backlog row.
C3_SlotRowFirst ==
    \A p \in Procs :
        (/\ Started(run[p])
         /\ SlotOfHour(HourOf(run[p].now)) # 0
         /\ SlotRows(file.rows, run[p].now) # {})
          => EarliestFirst(file.rows, SlotRows(file.rows, run[p].now), run[p].target)

\* the selected slot row comes after a later slot row in the file, and a backlog
\* row has an earlier post_at
C3_Witness ==
    \E p \in Procs :
        /\ Started(run[p])
        /\ run[p].target \in SlotRows(file.rows, run[p].now)
        /\ \E j \in SlotRows(file.rows, run[p].now) :
             j < run[p].target /\ PostAt(file.rows, j) > PostAt(file.rows, run[p].target)
        /\ \E b \in Overdue(file.rows, run[p].now) \ SlotRows(file.rows, run[p].now) :
             PostAt(file.rows, b) < PostAt(file.rows, run[p].target)

\* C4: when now lies in no slot window or no queued row matches the slot, the
\* run selects a queued row with the earliest post_at of all queued rows with
\* post_at <= now (none when there is none); and the row a run selects is
\* always queued with post_at <= now.
C4_OldestOverdue ==
    \A p \in Procs :
        Started(run[p]) =>
          /\ (SlotOfHour(HourOf(run[p].now)) = 0 \/ SlotRows(file.rows, run[p].now) = {})
               => IF Overdue(file.rows, run[p].now) = {}
                  THEN run[p].target = 0
                  ELSE /\ run[p].target \in Overdue(file.rows, run[p].now)
                       /\ \A j \in Overdue(file.rows, run[p].now) :
                            PostAt(file.rows, run[p].target) <= PostAt(file.rows, j)
          /\ run[p].target # 0 => run[p].target \in Overdue(file.rows, run[p].now)

\* now is in a slot window, a queued row of the slot hour is not yet due, and the
\* run falls back to the oldest overdue row, which is not the first one in the file
C4_Witness ==
    \E p \in Procs :
        /\ Started(run[p])
        /\ SlotOfHour(HourOf(run[p].now)) # 0
        /\ SlotRows(file.rows, run[p].now) = {}
        /\ run[p].target # 0
        /\ \E f \in Queued(file.rows) :
             /\ ParseOk(file.rows[f]["post_at_jst"])
             /\ file.rows[f]["post_at_jst"][2] = SlotOfHour(HourOf(run[p].now))
             /\ PostAt(file.rows, f) > run[p].now
        /\ \E o \in Overdue(file.rows, run[p].now) :
             o < run[p].target /\ PostAt(file.rows, o) > PostAt(file.rows, run[p].target)

\* the parent post of the run failed after at least one HTTP attempt
DeliveryFailed(s) == s.call = "post" /\ Raised(s) /\ s.attempt >= 1

\* a timestamp field holds the time t
Records(field, t) == ParseOk(field) /\ parse_jst(field) = t

\* C5: when the delivery of the selected row fails, the step that ends the run
\* leaves the row queued in posts.csv, with a last_error of 1 to 500 characters
\* that names the exception, last_attempt_at the time of the run, tweet_id and
\* posted_at as they were, and the run exits with status 0.
C5_FailSoft ==
    [][ \A p \in Procs :
          (/\ run[p].pc = "returned"
           /\ DeliveryFailed(run[p])
           /\ run'[p] # run[p])
            => /\ Ended(run'[p])
               /\ run'[p].exit = 0
               /\ Len(file'.rows) = Len(file.rows)
               /\ LET old == file.rows[run[p].target]
                      new == file'.rows[run[p].target]
                  IN  /\ new["status"] = "queued"
                      /\ new["last_error"].len \in 1..500
                      /\ new["last_error"].type = run[p].raised.type
                      /\ new["last_error"].status = run[p].raised.status
                      /\ Records(new["last_attempt_at_jst"], run[p].now)
                      /\ new["tweet_id"] = old["tweet_id"]
                      /\ new["posted_at_jst"] = old["posted_at_jst"]
      ]_vars

\* a run has ended after five retryable attempts, its row is queued with the
\* error recorded
C5_Witness ==
    \E p \in Procs :
        /\ Ended(run[p])
        /\ DeliveryFailed(run[p])
        /\ run[p].attempt = 5
        /\ file.rows[run[p].target]["status"] = "queued"
        /\ file.rows[run[p].target]["last_error"].len = 500

\* C6 as stated: after a run whose post succeeded, whatever the reply did, the
\* row in posts.csv is posted with a tweet_id, a posted_at and an empty last_error.
C6_AsStated ==
    \A p \in Procs :
        (Ended(run[p]) /\ run[p].posted)
          => LET r == file.rows[run[p].target]
             IN  /\ r["status"] = "posted"
                 /\ r["tweet_id"] # <<>>
                 /\ r["posted_at_jst"] # <<>>
                 /\ r["last_error"].len = 0

ReplyFailedIn(s) == s.posted /\ s.call = "reply" /\ Raised(s)

\* C6, amended: after a run whose post succeeded the row in posts.csv is posted
\* with the tweet_id the remote returned and posted_at the time of the run; its
\* last_error is empty unless the reply failed, and then it is the reply's error.
C6_PostedRecorded ==
    \A p \in Procs :
        (Ended(run[p]) /\ run[p].posted)
          => LET r == file.rows[run[p].target]
             IN  /\ r["status"] = "posted"
                 /\ r["tweet_id"] # <<>>
                 /\ r["tweet_id"] = run[p].tweet_id
                 /\ Records(r["posted_at_jst"], run[p].now)
                 /\ IF ReplyFailedIn(run[p])
                    THEN r["last_error"].len > 0 /\ r["last_error"].prefix = "reply "
                    ELSE r["last_error"].len = 0

\* a run has ended with the post and the reply both delivered
C6_Witness ==
    \E p \in Procs :
        /\ Ended(run[p])
        /\ run[p].posted
        /\ run[p].call = "reply"
        /\ ~Raised(run[p])
        /\ file.rows[run[p].target]["status"] = "posted"
        /\ file.rows[run[p].target]["reply_tweet_id"] # <<>>

\* C7: after a run whose post succeeded and whose reply failed, the row in
\* posts.csv is posted with the parent's tweet_id and posted_at, reply_tweet_id
\* is empty, last_error is the reply's error, and the run exits with status 0.
C7_ReplyFailureKeepsPosted ==
    \A p \in Procs :
        (Ended(run[p]) /\ ReplyFailedIn(run[p]))
          => LET r == file.rows[run[p].target]
             IN  /\ r["status"] = "posted"
                 /\ r["tweet_id"] # <<>>
                 /\ r["tweet_id"] = run[p].tweet_id
                 /\ Records(r["posted_at_jst"], run[p].now)
                 /\ r["reply_tweet_id"] = <<>>
                 /\ r["reply_posted_at_jst"] = <<>>
                 /\ r["last_error"].prefix = "reply "
                 /\ r["last_error"].type = run[p].raised.type
                 /\ r["last_error"].status = run[p].raised.status
                 /\ r["last_error"].len \in 1..500
                 /\ run[p].exit = 0

\* the reply of a posted row has failed with HTTP 500
C7_Witness ==
    \E p \in Procs :
        /\ Ended(run[p])
        /\ ReplyFailedIn(run[p])
        /\ run[p].raised.status = 500
        /\ file.rows[run[p].target]["status"] = "posted"

\* C8 as stated: a run that has selected a row and lacks a credential ends with
\* a non-zero exit status.
C8_ConfigErrorFatal ==
    \A p \in Procs :
        (Ended(run[p]) /\ run[p].target # 0 /\ Range(CRED_VARS) \ run[p].env # {})
          => run[p].exit # 0

\* the outcomes after which the specification lets the delivery try again
Retryable(o) ==
    \/ o.kind = "response" /\ o.status \in {429, 502, 503, 504}
    \/ o.kind \in {"ReadTimeout", "ConnectionError"}

\* the exception that surfaces the outcome o
ErrorOf(o) ==
    IF o.kind = "response"
    THEN [type |-> "HTTPError", status |-> o.status, msgLen |-> o.msgLen]
    ELSE [type |-> o.kind, status |-> 0, msgLen |-> o.msgLen]

\* C9: a call of post_to_x makes at most 5 attempts; another attempt follows an
\* attempt only after a sleep and only if the attempt ended with 429/502/503/504
\* or a network error; the call ends without a sleep after its last attempt; and
\* a fifth attempt that ends retryable ends the call with that attempt's error.
C9_BoundedRetries ==
    [][ \A p \in Procs :
          /\ run'[p].attempt <= 5
          /\ (run[p].pc = "http" /\ run'[p] # run[p])
               => /\ run'[p].pc \in {"http", "returned"}
                  /\ run'[p].pc = "http"
                       => /\ run'[p].attempt = run[p].attempt + 1
                          /\ run'[p].slept = run[p].slept + 1
                          /\ Retryable(run'[p].resp)
                  /\ run'[p].pc = "returned"
                       => /\ run'[p].attempt = run[p].attempt
                          /\ run'[p].slept = run[p].slept
                          /\ run'[p].slept = run'[p].attempt - 1
                  /\ (run[p].attempt = 5 /\ Retryable(run'[p].resp))
                       => /\ run'[p].pc = "returned"
                          /\ run'[p].raised = ErrorOf(run'[p].resp)
      ]_vars

\* a call has ended with the 429 of its fifth attempt, after four sleeps
C9_Witness ==
    \E p \in Procs :
        /\ run[p].pc = "returned"
        /\ run[p].attempt = 5
        /\ run[p].slept = 4
        /\ run[p].raised = [type |-> "HTTPError", status |-> 429, msgLen |-> run[p].resp.msgLen]

\* C10: an attempt that returns a status >= 400 other than 429, 502, 503 and 504
\* ends the call at once: no sleep, no further attempt, and the exception of
\* that attempt is the one raised.
C10_NoRetryOnOtherStatus ==
    [][ \A p \in Procs :
          (/\ run[p].pc = "http"
           /\ run'[p] # run[p]
           /\ run'[p].resp.kind = "response"
           /\ run'[p].resp.status >= 400
           /\ run'[p].resp.status \notin {429, 502, 503, 504})
            => /\ run'[p].pc = "returned"
               /\ run'[p].attempt = run[p].attempt
               /\ run'[p].slept = run[p].slept
               /\ run'[p].wait = run[p].wait
               /\ run'[p].raised = ErrorOf(run'[p].resp)
      ]_vars

\* the third attempt of a call has returned 403 and the call has ended
C10_Witness ==
    \E p \in Procs :
        /\ run[p].pc = "returned"
        /\ run[p].attempt = 3
        /\ run[p].slept = 2
        /\ run[p].resp.status = 403
        /\ run[p].raised.status = 403

\* the exponential wait after attempt k as the specification states it
Backoff(k) == IF 5 * 2^(k - 1) <= 120 THEN 5 * 2^(k - 1) ELSE 120

\* the response is a 429 whose x-rate-limit-reset header is a number
NumericReset(o) ==
    o.kind = "response" /\ o.status = 429 /\ o.reset.given /\ o.reset.digits

\* the step is a sleep of process p after its attempt k
SleepsAfter(p, k) ==
    /\ run[p].pc = "http"
    /\ run[p].attempt = k
    /\ run'[p].slept = run[p].slept + 1

\* C11 as stated: the wait after attempt k (1 <= k <= 4) is min(120, 5 * 2^(k-1))
\* for 502/503/504, network errors and 429 without a numeric reset header; for a
\* 429 with a numeric reset header it is max(1, reset - now); every wait lies
\* between 1 and 120 seconds.
C11_AsStated ==
    [][ \A p \in Procs : \A k \in 1..4 :
          SleepsAfter(p, k)
            => /\ run'[p].wait \in 1..120
               /\ IF NumericReset(run'[p].resp)
                  THEN run'[p].wait = Max(1, run'[p].resp.reset.ahead)
                  ELSE run'[p].wait = Backoff(k)
      ]_vars

\* C11, amended: as above, but for a 429 with a numeric reset header the wait is
\* min(120, max(1, reset - now)): the cap of 120 seconds applies to it too.
C11_WaitSeconds ==
    [][ \A p \in Procs : \A k \in 1..4 :
          SleepsAfter(p, k)
            => /\ run'[p].wait \in 1..120
               /\ IF NumericReset(run'[p].resp)
                  THEN run'[p].wait = Min(120, Max(1, run'[p].resp.reset.ahead))
                  ELSE run'[p].wait = Backoff(k)
               /\ (NumericReset(run'[p].resp) /\ run'[p].resp.reset.ahead = 10)
                    => run'[p].wait = 10
      ]_vars

\* the call sleeps 10 seconds after a third attempt answered 429 with reset =
\* now + 10, where the exponential value is 20
C11_Witness ==
    \E p \in Procs :
        /\ run[p].pc = "http"
        /\ run[p].attempt = 4
        /\ NumericReset(run[p].resp)
        /\ run[p].resp.reset.ahead = 10
        /\ run[p].wait = 10
        /\ Backoff(3) = 20

\* the row `new` is the row `old` as it was loaded: every field it had has its
\* value, and every field it has got is empty
SameRow(old, new) ==
    /\ DOMAIN old \subseteq DOMAIN new
    /\ \A c \in DOMAIN old : new[c] = old[c]
    /\ \A c \in DOMAIN new \ DOMAIN old : new[c] = EmptyValue(c)

\* C12: a step that rewrites posts.csv is the end of a run that selected a row;
\* it writes as many rows as the file had, each at its place with its id; every
\* row but the selected one keeps the value of every field (a column main() adds
\* to the file is empty in it), and the columns the file had stay, in their order.
C12_RowsKept ==
    [][ file' # file
          => \E p \in Procs :
               /\ Running(run[p]) /\ Ended(run'[p])
               /\ run[p].target \in 1..Len(file.rows)
               /\ Len(file'.rows) = Len(file.rows)
               /\ SubSeq(file'.header, 1, Len(file.header)) = file.header
               /\ \A i \in 1..Len(file.rows) :
                    /\ file'.rows[i]["id"] = file.rows[i]["id"]
                    /\ file'.rows[i]["text"] = file.rows[i]["text"]
                    /\ file'.rows[i]["post_at_jst"] = file.rows[i]["post_at_jst"]
                    /\ i # run[p].target => SameRow(file.rows[i], file'.rows[i])
      ]_vars

\* a run has rewritten a file of two rows: its row holds the error of the failed
\* delivery, the other row is queued with its reply text
C12_Witness ==
    \E p \in Procs :
        /\ Ended(run[p])
        /\ run[p].target # 0
        /\ Len(file.rows) = 2
        /\ file.rows[run[p].target]["last_error"] # NoError
        /\ \E j \in 1..Len(file.rows) :
             /\ j # run[p].target
             /\ file.rows[j]["status"] = "queued"
             /\ file.rows[j]["reply_text"] # <<>>

\* the run of process p has ended after selecting a row, so it has saved the file
Saved(s) == s.pc = "done" /\ s.target # 0

\* C13: nothing orders the load of one invocation after the save of another,
\* and every save is a full rewrite: once an invocation has saved, posts.csv is,
\* whole, the rows one invocation held in memory, the update of the other not
\* merged in; so when the row an invocation delivered and saved as posted is not
\* posted with that tweet_id in the file, the file is what the other invocation,
\* which loaded the row as queued, has saved.
C13_NoLocking ==
    /\ (\E p \in Procs : Saved(run[p]))
         => \E p \in Procs :
              /\ Saved(run[p])
              /\ file.rows = run[p].rows
              /\ file.header = run[p].fieldnames
    /\ \A p \in Procs :
         (/\ Saved(run[p])
          /\ run[p].posted
          /\ \/ file.rows[run[p].target]["status"] # "posted"
             \/ file.rows[run[p].target]["tweet_id"] # run[p].tweet_id)
           => \E q \in Procs \ {p} :
                /\ Saved(run[q])
                /\ file.rows = run[q].rows
                /\ \/ run[q].target # run[p].target
                      /\ run[q].rows[run[p].target]["status"] = "queued"
                   \/ run[q].target = run[p].target

\* both invocations selected the same row; one delivered it and saved it as
\* posted, the other failed and saved it, later, as queued: the remote has the
\* post and the file has the row queued
C13_Witness ==
    \E p, q \in Procs :
        /\ p # q
        /\ Ended(run[p]) /\ Ended(run[q])
        /\ run[p].target = run[q].target
        /\ run[p].target # 0
        /\ run[p].posted
        /\ run[p].rows[run[p].target]["status"] = "posted"
        /\ ~run[q].posted
        /\ file.rows[run[p].target]["status"] = "queued"
        /\ accepted[file.rows[run[p].target]["text"]] >= 1

\* C14: when a run ends with the delivery of its row failed, the row is, for the
\* next run, queued with post_at <= now, so a candidate of the backlog selection;
\* the next run selects it again, or selects a row of the running slot, or a
\* queued row with an earlier post_at.
C14_FailedStaysEligible ==
    [][ \A p \in Procs :
          (/\ Ended(run[p])
           /\ DeliveryFailed(run[p])
           /\ run'[p] # run[p])
            => LET i == run[p].target
                   now == run'[p].now
                   j == run'[p].target
               IN  /\ file.rows[i]["status"] = "queued"
                   /\ PostAt(file.rows, i) <= now
                   /\ OverdueCandidate(file.rows[i], now)
                   /\ i \in Overdue(file.rows, now)
                   /\ \/ j = i
                      \/ j \in SlotRows(file.rows, now)
                      \/ j \in Overdue(file.rows, now)
                           /\ PostAt(file.rows, j) < PostAt(file.rows, i)
      ]_vars

\* the row whose delivery failed in the run before is being delivered again
C14_Witness ==
    \E p \in Procs :
        /\ run[p].pc = "http"
        /\ run[p].call = "post"
        /\ file.rows[run[p].target]["status"] = "queued"
        /\ file.rows[run[p].target]["last_error"] # NoError
        /\ Records(file.rows[run[p].target]["last_attempt_at_jst"], DateTime(2, 8, 30))
        /\ run[p].now = DateTime(2, 23, 0)

Blanks == {" ", "\t", "\n"}

\* the text has a character that is not a blank: it is non-empty after trimming
NonBlank(text) == \E k \in 1..Len(text) : text[k] \notin Blanks

\* t is the text with the blanks at both ends, and only those, removed
IsTrimOf(t, text) ==
    \E a, b \in 1..Len(text) :
        /\ t = SubSeq(text, a, b)
        /\ text[a] \notin Blanks
        /\ text[b] \notin Blanks
        /\ \A k \in 1..Len(text) : (k < a \/ k > b) => text[k] \in Blanks

\* the reply text of the row the run selected
ReplyTextOf(s) == file.rows[s.target]["reply_text"]

\* the run has called post_to_x for the reply and made an HTTP attempt
ReplyAttempted(s) == s.call = "reply" /\ s.attempt >= 1

\* C15: a run attempts a reply only after its parent post succeeded (the row is
\* marked posted in memory and the remote has the post) and only if the row's
\* reply_text is non-empty after trimming; the reply carries the trimmed text
\* and the tweet id returned for the parent in that run; a run that has ended
\* with the parent posted and a non-empty trimmed reply_text has attempted the
\* reply; and a reply that succeeded has set reply_tweet_id and reply_posted_at.
C15_ReplyAfterParent ==
    \A p \in Procs :
        LET s == run[p]
        IN  /\ s.call = "reply"
              => /\ ReplyAttempted(s)
                 /\ s.posted
                 /\ s.tweet_id # <<>>
                 /\ s.rows[s.target]["status"] = "posted"
                 /\ s.rows[s.target]["tweet_id"] = s.tweet_id
                 /\ accepted[s.rows[s.target]["text"]] >= 1
                 /\ NonBlank(ReplyTextOf(s))
                 /\ IsTrimOf(s.payload.text, ReplyTextOf(s))
                 /\ s.payload.reply_to = s.tweet_id
            /\ (Ended(s) /\ s.target # 0)
              => (ReplyAttempted(s) <=> (s.posted /\ NonBlank(ReplyTextOf(s))))
            /\ (Ended(s) /\ ReplyAttempted(s) /\ ~Raised(s))
              => /\ file.rows[s.target]["reply_tweet_id"] = s.ret
                 /\ s.ret # <<>>
                 /\ Records(file.rows[s.target]["reply_posted_at_jst"], s.now)
            /\ (Ended(s) /\ s.target # 0 /\ ~(ReplyAttempted(s) /\ ~Raised(s)))
              => /\ file.rows[s.target]["reply_tweet_id"] = <<>>
                 /\ file.rows[s.target]["reply_posted_at_jst"] = <<>>

\* a run has ended with the reply delivered: the row's reply_text has blanks
\* around it, the reply carried the trimmed text and referenced the parent
C15_Witness ==
    \E p \in Procs :
        /\ Ended(run[p])
        /\ ReplyAttempted(run[p])
        /\ ~Raised(run[p])
        /\ file.rows[run[p].target]["reply_text"] # run[p].payload.text
        /\ run[p].payload.reply_to = file.rows[run[p].target]["tweet_id"]
        /\ file.rows[run[p].target]["reply_tweet_id"] = ReplyIdOf(run[p].tweet_id)

\* the field is a date and a time of day
IsTimestamp(field) ==
    /\ Len(field) = 3
    /\ field[1] >= 1
    /\ field[2] >= 0 /\ field[2] <= 23
    /\ field[3] >= 0 /\ field[3] <= 59

\* the queued rows whose post_at is empty or does not read as a time
Undated(rows) == {i \in Queued(rows) : ~IsTimestamp(rows[i]["post_at_jst"])}

\* the rows without row b, and the place row i has among them
Without(rows, b) == SubSeq(rows, 1, b - 1) \o SubSeq(rows, b + 1, Len(rows))

PlaceWithout(i, b) == IF i > b THEN i - 1 ELSE i

\* C16: a queued row whose post_at is empty or unparsable is not the row a run
\* selects, nor the row pick_slot_post (for any slot hour) or pick_oldest_overdue
\* returns; and the run selects the row it would select from the file without
\* that row.
C16_UndatedSkipped ==
    \A p \in Procs :
        Started(run[p]) =>
          \A b \in Undated(file.rows) :
              /\ run[p].target # b
              /\ pick_oldest_overdue(file.rows, run[p].now) # b
              /\ \A h \in {8, 12, 16, 20} : pick_slot_post(file.rows, run[p].now, h) # b
              /\ SelectTarget(Without(file.rows, b), run[p].now) = PlaceWithout(run[p].target, b)

\* the run has selected the third row of a file whose first rows are queued, one
\* with an empty post_at and one with a post_at that does not parse
C16_Witness ==
    \E p \in Procs :
        /\ Started(run[p])
        /\ run[p].target = 3
        /\ \E a, b \in Undated(file.rows) :
             /\ a < b /\ b < run[p].target
             /\ file.rows[a]["post_at_jst"] = <<>>
             /\ file.rows[b]["post_at_jst"] # <<>>

\* C17: a run that starts when posts.csv has no row, or no queued row with
\* post_at <= now, ends in that step with no row selected, no call of post_to_x
\* and no HTTP attempt, exit status 0, nothing created at the remote, and the
\* file, header and rows, as it was.
C17_NothingToDo ==
    [][ \A p \in Procs :
          (/\ ~Running(run[p])
           /\ run'[p] # run[p]
           /\ Overdue(file.rows, run'[p].now) = {})
            => /\ Ended(run'[p])
               /\ run'[p].target = 0
               /\ run'[p].call = "none"
               /\ run'[p].attempt = 0
               /\ run'[p].exit = 0
               /\ accepted' = accepted
               /\ file' = file
      ]_vars

\* a run has ended with nothing to do on a file with a row that is not yet due
\* and without the columns main() adds: the file still lacks them
C17_Witness ==
    \E p \in Procs :
        /\ Ended(run[p])
        /\ run[p].target = 0
        /\ file.header = BASE_COLS
        /\ run[p].fieldnames # file.header
        /\ \E i \in Queued(file.rows) : PostAt(file.rows, i) > run[p].now

\* the id of a row, None and "" alike when the file has no id column or no value
IdOf(r) == IF "id" \in DOMAIN r THEN r["id"] ELSE <<>>

\* the rows of the file with the id of row t
SameId(rows, t) == {i \in 1..Len(rows) : IdOf(rows[i]) = IdOf(rows[t])}

Least(S) == CHOOSE i \in S : \A j \in S : i <= j

\* the step ends a run of process p that selected a row
Saves(p) == Running(run[p]) /\ Ended(run'[p])

\* C18 as stated: in every queue, whatever its ids, the row a run updates is the
\* row it selected, whose text it sent: the save records the attempt in that row
\* and leaves every other row as it was.
C18_AsStated ==
    [][ \A p \in Procs :
          Saves(p)
            => /\ Records(file'.rows[run[p].target]["last_attempt_at_jst"], run[p].now)
               /\ \A i \in 1..Len(file.rows) :
                    i # run[p].target => file'.rows[i] = file.rows[i]
      ]_vars

\* C18, amended: the text a run sends is the text of the row it selected; the
\* row it updates is the first row of the file whose id equals the id of the
\* selected row, and every other row is left as it was; so the updated row is
\* the selected row exactly when no earlier row has its id (in particular when
\* the ids of the file are distinct and not empty).
C18_FirstWithIdUpdated ==
    [][ \A p \in Procs :
          /\ (run'[p].pc = "http" /\ run'[p].call = "post")
               => run'[p].payload.text = file.rows[run'[p].target]["text"]
          /\ Saves(p)
               => LET t == run[p].target
                      u == Least(SameId(file.rows, t))
                  IN  /\ Records(file'.rows[u]["last_attempt_at_jst"], run[p].now)
                      /\ run'[p].posted
                           => /\ file'.rows[u]["status"] = "posted"
                              /\ file'.rows[u]["tweet_id"] = run'[p].tweet_id
                      /\ ~run'[p].posted => file'.rows[u]["last_error"] # NoError
                      /\ \A i \in 1..Len(file.rows) : i # u => file'.rows[i] = file.rows[i]
                      /\ (\A j \in 1..(t - 1) : IdOf(file.rows[j]) # IdOf(file.rows[t]))
                           => u = t
      ]_vars

\* the run selected the second of two rows with the same id and delivered its
\* text; the file has the first row posted and the selected row still queued
C18_Witness ==
    \E p \in Procs :
        /\ Ended(run[p])
        /\ run[p].posted
        /\ run[p].target = 2
        /\ IdOf(file.rows[1]) = IdOf(file.rows[2])
        /\ IdOf(file.rows[1]) # <<>>
        /\ file.rows[1]["status"] = "posted"
        /\ file.rows[2]["status"] = "queued"
        /\ accepted[file.rows[2]["text"]] = 1
        /\ accepted[file.rows[1]["text"]] = 0

\* C19 as stated: over serialized runs the remote creates at most one post for
\* the text of a row.
C19_AsStated == \A x \in DOMAIN accepted : accepted[x] <= 1

\* the step is an attempt of process p that makes the remote create a post
Creates(p) ==
    /\ run[p].pc = "http"
    /\ run[p].call = "post"
    /\ accepted'[run[p].payload.text] = accepted[run[p].payload.text] + 1

\* C19, amended: a row whose acceptance the dispatcher has seen (a 2xx response
\* with data.id) is saved as posted and its text is never sent again: every post
\* the remote creates is for the row the run selected, which is queued in the
\* file.  The remote creates a second post for a text only in a retry of the
\* same call (after a timeout that followed the acceptance) or in a run after a
\* run that recorded a failure for the row (the acceptance came back as a
\* timeout or without data.id).
C19_NoResendOncePosted ==
    [][ /\ accepted' # accepted => \E p \in Procs : Creates(p)
        /\ \A p \in Procs :
             (run[p].pc = "http" /\ run[p].call = "post")
               => /\ file.rows[run[p].target]["text"] = run[p].payload.text
                  /\ file.rows[run[p].target]["status"] = "queued"
                  /\ \A i \in 1..Len(file.rows) :
                       file.rows[i]["text"] = run[p].payload.text
                         => file.rows[i]["status"] = "queued"
        /\ \A p \in Procs :
             (Creates(p) /\ accepted[run[p].payload.text] >= 1)
               => \/ run[p].attempt >= 2 /\ run[p].resp.kind = "ReadTimeout"
                  \/ file.rows[run[p].target]["last_error"] # NoError
      ]_vars

\* the second run is sending the text of a row for which the remote has a post:
\* the first run got a 2xx without data.id and left the row queued
C19_Witness ==
    \E p \in Procs :
        /\ runs = 2
        /\ run[p].pc = "http"
        /\ run[p].call = "post"
        /\ accepted[run[p].payload.text] = 1
        /\ file.rows[run[p].target]["status"] = "queued"
        /\ file.rows[run[p].target]["last_error"].type = "KeyError"

\* row i is queued with a post_at that reads as a time and has passed
Due(i) ==
    /\ i \in Queued(file.rows)
    /\ IsTimestamp(file.rows[i]["post_at_jst"])
    /\ PostAt(file.rows, i) <= clock

Posted(i) == file.rows[i]["status"] = "posted"

\* a delivery that can succeed again and again does succeed
DeliveriesSucceed == SF_vars(Delivered(1))

\* C20: when serialized runs recur forever and deliveries eventually succeed,
\* every queued row with a parsable post_at that has passed is eventually
\* posted.  A run selects a row while a queued row with an earlier post_at is
\* overdue only by the slot rule, so as long as the delivery of the oldest
\* overdue row fails, no later overdue row is posted outside its slot window.
C20_EventuallyPosted ==
    /\ DeliveriesSucceed => \A i \in 1..MaxRows : Due(i) ~> Posted(i)
    /\ [][ \A p \in Procs :
             (~Running(run[p]) /\ run'[p] # run[p] /\ run'[p].target # 0)
               => \A i \in Overdue(file.rows, run'[p].now) :
                    PostAt(file.rows, i) < PostAt(file.rows, run'[p].target)
                      => run'[p].target \in SlotRows(file.rows, run'[p].now)
         ]_vars

\* every row of the file is posted, the row due the day before after a row due
\* in the 08 slot of the second day
C20_Witness ==
    /\ \A i \in 1..Len(file.rows) : Posted(i)
    /\ \E i, j \in 1..Len(file.rows) :
         /\ PostAt(file.rows, i) < PostAt(file.rows, j)
         /\ parse_jst(file.rows[i]["posted_at_jst"]) > parse_jst(file.rows[j]["posted_at_jst"])

====
